---- MODULE Spec2Model ----
(***************************************************************************)
(* A model of npc_mvr/mvr.py: the alignment of MVR camera videos with the  *)
(* sync clock.  Each operation of the module is an operator computed the   *)
(* way the Python code computes it; each specification below calls one     *)
(* operation on inputs drawn from bounded sets.                            *)
(*                                                                         *)
(*   pc    where the call is: "call" before it runs, "done" after          *)
(*   args  the inputs the operation is called with                         *)
(*   ret   what the call produced: [err, val], err = "" on normal return   *)
(*         and the name of the Python exception otherwise                  *)
(***************************************************************************)
EXTENDS Integers, Sequences, FiniteSets, TLC

VARIABLES pc, args, ret

vars == <<pc, args, ret>>

\* ------------------------------------------------------------ bounds
\* largest 1-indexed frame number written in a generated lost-frame span
MaxFrame == 4
\* most spans in a generated lost-frame string
MaxSpans == 2
\* longest timestamp sequence handed to remove_lost_frame_times
MaxLen == 4
\* most entries of a lost-index container handed to remove_lost_frame_times
MaxLost == 2

\* ------------------------------------------------------------ results
None == [err |-> "", val |-> <<>>]
Return(v) == [err |-> "", val |-> v]
Raise(e) == [err |-> e, val |-> <<>>]
Returned(r) == r.err = ""

\* ------------------------------------------------------------ Python strings
\* A Python str is the sequence of its characters.
Digits == <<"0", "1", "2", "3", "4", "5", "6", "7", "8", "9">>

IsDigit(c) == \E d \in 1..10 : Digits[d] = c

DigitValue(c) == (CHOOSE d \in 1..10 : Digits[d] = c) - 1

\* int(s) raises ValueError unless s is a decimal literal
IsIntLiteral(s) == Len(s) > 0 /\ \A i \in 1..Len(s) : IsDigit(s[i])

RECURSIVE int(_)
int(s) ==
    IF Len(s) = 0 THEN 0
    ELSE 10 * int(SubSeq(s, 1, Len(s) - 1)) + DigitValue(s[Len(s)])

RECURSIVE str(_)
str(n) ==
    IF n < 10 THEN <<Digits[n + 1]>>
    ELSE str(n \div 10) \o <<Digits[(n % 10) + 1]>>

\* s.split(sep) for a one-character separator
RECURSIVE split(_, _)
split(s, sep) ==
    IF \E i \in 1..Len(s) : s[i] = sep
    THEN LET i == CHOOSE k \in 1..Len(s) :
                     s[k] = sep /\ \A j \in 1..(k - 1) : s[j] # sep
         IN  <<SubSeq(s, 1, i - 1)>> \o split(SubSeq(s, i + 1, Len(s)), sep)
    ELSE <<s>>

\* ------------------------------------------------------------ numpy helpers
\* np.arange(a, b): a, a+1, ..., b-1
arange(a, b) == [i \in 1..(IF b > a THEN b - a ELSE 0) |-> a + i - 1]

\* np.subtract(xs, n)
subtract(xs, n) == [i \in DOMAIN xs |-> xs[i] - n]

\* x in container
Contains(container, x) == \E i \in DOMAIN container : container[i] = x

\* ------------------------------------------------------------ lost frames
\* one pass of the loop over lost_frame_spans: what the span appends
SpanIsMalformed(span) ==
    LET start_end == split(span, "-")
    IN  IF Len(start_end) = 1
        THEN ~IsIntLiteral(start_end[1])
        ELSE ~IsIntLiteral(start_end[1]) \/ ~IsIntLiteral(start_end[2])

SpanFrames(span) ==
    LET start_end == split(span, "-")
    IN  IF Len(start_end) = 1
        THEN <<int(start_end[1])>>
        ELSE arange(int(start_end[1]), int(start_end[2]) + 1)

RECURSIVE ExtendAll(_)
ExtendAll(lost_frame_spans) ==
    IF Len(lost_frame_spans) = 0 THEN <<>>
    ELSE SpanFrames(Head(lost_frame_spans)) \o ExtendAll(Tail(lost_frame_spans))

get_lost_frames_NoSubtract(info) ==
    IF info.FramesLostCount = 0 THEN Return(<<>>)
    ELSE LET lost_frame_spans == split(info.LostFrames[1], ",")
         IN  IF \E i \in 1..Len(lost_frame_spans) :
                    SpanIsMalformed(lost_frame_spans[i])
             THEN Raise("ValueError")
             ELSE Return(ExtendAll(lost_frame_spans))

get_lost_frames_from_camera_info(info) ==
    IF info.FramesLostCount = 0 THEN Return(<<>>)
    ELSE LET lost_frame_spans == split(info.LostFrames[1], ",")
         IN  IF \E i \in 1..Len(lost_frame_spans) :
                    SpanIsMalformed(lost_frame_spans[i])
             THEN Raise("ValueError")
             ELSE Return(subtract(ExtendAll(lost_frame_spans), 1))

\* ------------------------------------------------------------ remove_lost_frame_times
RECURSIVE Keep(_, _, _, _, _)
\* [t for idx, t in enumerate(frame_times) if idx + shift not in lost_frame_idx]
\* over the 0-indexed positions lo..hi, by halves
Keep(frame_times, lost_frame_idx, shift, lo, hi) ==
    IF lo > hi THEN <<>>
    ELSE IF lo = hi
    THEN (IF Contains(lost_frame_idx, lo + shift) THEN <<>> ELSE <<frame_times[lo + 1]>>)
    ELSE Keep(frame_times, lost_frame_idx, shift, lo, (lo + hi) \div 2)
         \o Keep(frame_times, lost_frame_idx, shift, (lo + hi) \div 2 + 1, hi)

remove_lost_frame_times_OneIndexed(frame_times, lost_frame_idx) ==
    Keep(frame_times, lost_frame_idx, 1, 0, Len(frame_times) - 1)

remove_lost_frame_times(frame_times, lost_frame_idx) ==
    Keep(frame_times, lost_frame_idx, 0, 0, Len(frame_times) - 1)

\* ============================================================ sync lines
\* camera_names_on_sync, in the order the code iterates them
camera_names_on_sync == <<"beh", "face", "eye">>

CameraNames == {"behavior", "face", "eye"}

CameraNamesOnSync == {"beh", "face", "eye"}

LineSuffixes == <<"_cam_exposing", "_cam_frame_readout">>

\* the sync line f"{camera_name}{line_suffix}"
Line(camera_name, line_suffix) == <<camera_name, line_suffix>>

\* get_camera_name: the first of eye, face, beh that the label contains names
\* the camera; label is a sync prefix or a camera name
get_camera_name(label) == IF label = "beh" THEN "behavior" ELSE label

get_camera_name_on_sync(sync_line) ==
    LET name == get_camera_name(sync_line)
    IN  IF name = "behavior" THEN "beh" ELSE name

\* ------------------------------------------------------------ Python objects
\* Values that the code compares across types carry their Python type:
\* a str never equals a float.
PyStr(x) == [type |-> "str", v |-> x]

PyFloat(x) == [type |-> "float", v |-> x]

PyEq(a, b) == a.type = b.type /\ a.v = b.v

NotFound == 0 - 1

\* tuple.index(x): the 0-indexed position of the first item equal to x;
\* NotFound stands for the ValueError it raises when there is none
tuple_index(t, x) ==
    IF \E i \in 1..Len(t) : PyEq(t[i], x)
    THEN (CHOOSE i \in 1..Len(t) :
              PyEq(t[i], x) /\ \A j \in 1..(i - 1) : ~PyEq(t[j], x)) - 1
    ELSE NotFound

\* round(x) of Python for the rational num/den (den > 0): to the nearest
\* integer, a tie to the even one
PyRound(num, den) ==
    LET q == num \div den
        r == num % den
    IN  IF 2 * r < den THEN q
        ELSE IF 2 * r > den THEN q + 1
        ELSE IF q % 2 = 0 THEN q ELSE q + 1

RECURSIVE SumRange(_, _, _)
\* xs[lo] + ... + xs[hi], by halves
SumRange(xs, lo, hi) ==
    IF lo > hi THEN 0
    ELSE IF lo = hi THEN xs[lo]
    ELSE SumRange(xs, lo, (lo + hi) \div 2) + SumRange(xs, (lo + hi) \div 2 + 1, hi)

SumSeq(xs) == SumRange(xs, 1, Len(xs))

\* xs[:n]
Prefix(xs, n) == SubSeq(xs, 1, IF Len(xs) < n THEN Len(xs) ELSE n)

Abs(x) == IF x < 0 THEN 0 - x ELSE x

\* ------------------------------------------------------------ the resolver
\* Times on the sync clock are integers, TicksPerMs of them to a millisecond.
TicksPerMs == 2

\* the burst of pulses at the start of a recording that carries the fingerprint
FingerprintPulses == 8

\* the keys of start_times_on_sync, in the dict's insertion order
StartTimeKeys ==
    << Line("beh", "_cam_exposing"), Line("beh", "_cam_frame_readout"),
       Line("face", "_cam_exposing"), Line("face", "_cam_frame_readout"),
       Line("eye", "_cam_exposing"), Line("eye", "_cam_frame_readout") >>

\* get_start_times_on_sync: the first rising edge of each of the six lines
get_start_times_on_sync(sync) ==
    [line \in {StartTimeKeys[i] : i \in 1..6} |-> sync.rising[line][1]]

\* sorted(d, key=d.get): the keys of d by ascending value, equal values in
\* insertion order (the sort is stable)
sorted_keys(keys, d) ==
    LET rank(i) == Cardinality({j \in 1..Len(keys) :
                        \/ d[keys[j]] < d[keys[i]]
                        \/ (d[keys[j]] = d[keys[i]] /\ j < i)})
    IN  [k \in 1..Len(keys) |-> keys[CHOOSE i \in 1..Len(keys) : rank(i) = k - 1]]

\* get_exposure_fingerprint_durations_from_jsons
expected_exposure_fingerprint_durations(jsons) ==
    [camera_name \in CameraNamesOnSync |->
        jsons[get_camera_name(camera_name)].CustomInitialExposureTime]

\* get_exposure_fingerprint_durations_from_sync: the mean of the first 8
\* falling-minus-rising differences, in ms, rounded to an integer
actual_exposure_fingerprint_durations(sync) ==
    [camera_name \in CameraNamesOnSync |->
        LET n == Line(camera_name, "_cam_exposing")
            rising == Prefix(sync.rising[n], FingerprintPulses)
            falling == Prefix(sync.falling[n], FingerprintPulses)
        IN  PyRound(SumSeq(falling) - SumSeq(rising), Len(rising) * TicksPerMs)]

\* min(actual, key=lambda line: abs(expected_duration - actual[line])): the
\* first line, in the dict's order, at the least distance
closest_line(expected_duration, actual) ==
    LET dist(i) == Abs(expected_duration - actual[camera_names_on_sync[i]])
        first == CHOOSE i \in 1..3 :
                    /\ \A j \in 1..3 : dist(i) <= dist(j)
                    /\ \A j \in 1..(i - 1) : dist(j) > dist(i)
    IN  camera_names_on_sync[first]

\* what line 399 hands to lines_sorted_by_start_time.index for a line
index_argument(start_times_on_sync, line) == PyFloat(start_times_on_sync[line])

\* the assert of one pass of the loop: "" when it passes, else the exception
ordering_assertion(sync, sync_camera_name) ==
    LET start_times_on_sync == get_start_times_on_sync(sync)
        sorted_lines == sorted_keys(StartTimeKeys, start_times_on_sync)
        lines_sorted_by_start_time == [i \in 1..6 |-> PyStr(sorted_lines[i])]
        exposing_line == Line(sync_camera_name, "_cam_exposing")
        readout_line == Line(sync_camera_name, "_cam_frame_readout")
        a == tuple_index(lines_sorted_by_start_time,
                         index_argument(start_times_on_sync, exposing_line))
        b == tuple_index(lines_sorted_by_start_time,
                         index_argument(start_times_on_sync, readout_line))
    IN  IF a = NotFound \/ b = NotFound THEN "ValueError"
        ELSE IF a + 1 # b THEN "AssertionError"
        ELSE ""

\* sync: the SyncDataset; jsons: camera name -> RecordingReport of each video
\* path passed (camera_to_json_data)
get_camera_sync_line_name_mapping(sync, jsons) ==
    IF \E i \in 1..6 : Len(sync.rising[StartTimeKeys[i]]) = 0
    THEN Raise("IndexError")
    ELSE IF \E c \in CameraNames : c \notin DOMAIN jsons
    THEN Raise("KeyError")
    ELSE
      LET expected == expected_exposure_fingerprint_durations(jsons)
          actual == actual_exposure_fingerprint_durations(sync)
          expected_to_actual_line_mapping ==
              [camera \in CameraNames |->
                  get_camera_name_on_sync(
                      closest_line(expected[get_camera_name_on_sync(camera)], actual))]
          failed == {i \in 1..3 : ordering_assertion(sync, camera_names_on_sync[i]) # ""}
      IN  IF failed # {}
          THEN Raise(ordering_assertion(sync,
                   camera_names_on_sync[CHOOSE i \in failed : \A j \in failed : i <= j]))
          ELSE Return(expected_to_actual_line_mapping)

\* ------------------------------------------------------------ frame times
\* np.nan: a value that is no time on the sync clock
NaN == 0 - 1

\* get_cam_exposing_times_on_sync: camera name -> rising edges of its own line
get_cam_exposing_times_on_sync(sync) ==
    [camera \in CameraNames |->
        sync.rising[Line(get_camera_name_on_sync(camera), "_cam_exposing")]]

\* get_cam_transfer_times_on_sync
get_cam_transfer_times_on_sync(sync) ==
    [camera \in CameraNames |->
        sync.rising[Line(get_camera_name_on_sync(camera), "_cam_frame_readout")]]

\* the body of the loop over cameras, after the lost frames were read: the
\* camera's frame times, or the AssertionError of the final length check
camera_frame_times(exposing_times, lost_frames, num_frames_in_video, apply_correction) ==
    LET inserted == <<NaN>> \o remove_lost_frame_times(exposing_times, lost_frames)
        frames_missing_from_sync == num_frames_in_video - Len(inserted)
        corrected ==
            IF apply_correction /\ frames_missing_from_sync > 0
            THEN inserted \o [i \in 1..frames_missing_from_sync |-> NaN]
            ELSE IF apply_correction /\ Len(inserted) > num_frames_in_video
            THEN SubSeq(inserted, 1, num_frames_in_video)
            ELSE inserted
    IN  IF apply_correction /\ Len(corrected) # num_frames_in_video
        THEN Raise("AssertionError")
        ELSE Return(corrected)

\* the order in which the loop visits the cameras (that of the sync line labels)
CameraOrder == <<"behavior", "face", "eye">>

\* sync: the SyncDataset; cams: the cameras whose video paths were passed;
\* jsons, num_frames: camera -> RecordingReport, frame count of the video file
get_video_frame_times(sync, cams, jsons, num_frames, apply_correction) ==
    LET camera_to_json_data == [c \in cams |-> jsons[c]]
        mapping == get_camera_sync_line_name_mapping(sync, camera_to_json_data)
    IN  IF ~Returned(mapping) THEN mapping
        ELSE
          LET correct_sync_line_names == mapping.val
              own_times == get_cam_exposing_times_on_sync(sync)
              camera_exposing_times ==
                  [camera \in CameraNames |->
                      own_times[get_camera_name(correct_sync_line_names[camera])]]
              lost(camera) == get_lost_frames_from_camera_info(camera_to_json_data[camera])
              times(camera) ==
                  IF ~Returned(lost(camera)) THEN lost(camera)
                  ELSE camera_frame_times(camera_exposing_times[camera], lost(camera).val,
                                          num_frames[camera], apply_correction)
              failed == {i \in 1..3 : CameraOrder[i] \in cams /\ ~Returned(times(CameraOrder[i]))}
          IN  IF failed # {}
              THEN times(CameraOrder[CHOOSE i \in failed : \A j \in failed : i <= j])
              ELSE Return([camera \in cams |-> times(camera).val])

\* ------------------------------------------------------------ mis-wiring warning
\* tuple(correct_sync_line_names.keys()): the roles, in the order the
\* resolver's loop inserted them
mapping_keys == [i \in 1..3 |-> get_camera_name(camera_names_on_sync[i])]

\* tuple(correct_sync_line_names.values()): the names on sync they map to
mapping_values(correct_sync_line_names) ==
    [i \in 1..3 |-> correct_sync_line_names[mapping_keys[i]]]

\* the number of warnings get_video_frame_times logs, mapping being what the
\* resolver returned or raised
logged_warnings(mapping) ==
    IF Returned(mapping) /\ mapping_keys # mapping_values(mapping.val) THEN 1 ELSE 0

WithWarnings(r, n) == [err |-> r.err, val |-> r.val, warnings |-> n]

\* get_video_frame_times with what it logged
get_video_frame_times_logged(sync, cams, jsons, num_frames, apply_correction) ==
    WithWarnings(get_video_frame_times(sync, cams, jsons, num_frames, apply_correction),
                 logged_warnings(
                     get_camera_sync_line_name_mapping(sync, [c \in cams |-> jsons[c]])))

\* ------------------------------------------------------------ barcode
\* A barcode image is a sequence of rows of pixel luminances (uint8).
border == 1

value_size == 4

num_values_per_group == 4

group_size == num_values_per_group * (value_size + border * 2)

group_separator == 3

num_groups == 5

\* sum and number of the pixels of image[:, start:end_] (0-indexed columns,
\* cut at the image's width as a slice is)
SliceStats(image, start, end_) ==
    LET width == IF Len(image) = 0 THEN 0 ELSE Len(image[1])
        last == IF end_ < width THEN end_ ELSE width
        cols == IF last > start THEN last - start ELSE 0
        rowsum(r) == SumSeq(SubSeq(image[r], start + 1, start + cols))
    IN  [sum |-> SumSeq([r \in 1..Len(image) |-> rowsum(r)]),
         n |-> Len(image) * cols]

\* 0-indexed first column, in the image, of cell value_idx of group group_idx
value_start(group_idx, value_idx) ==
    group_idx * (group_size + group_separator)
        + (value_size + border) * value_idx + (value_idx + 1) * border

\* norm_mean of a cell: np.round((mean / 255) * 2 - 1), -1 black, 0 grey, 1 white
norm_mean(image, group_idx, value_idx) ==
    LET st == SliceStats(image, value_start(group_idx, value_idx),
                         value_start(group_idx, value_idx) + value_size)
    IN  PyRound(2 * st.sum - 255 * st.n, 255 * st.n)

\* values: the 20 cells group by group, left to right
cell_values(image) ==
    [i \in 1..(num_groups * num_values_per_group) |->
        norm_mean(image, (i - 1) \div num_values_per_group, (i - 1) % num_values_per_group)]

\* values[::-1]
Reverse(xs) == [i \in 1..Len(xs) |-> xs[Len(xs) + 1 - i]]

RECURSIVE Pow2(_)
Pow2(n) == IF n = 0 THEN 1 ELSE 2 * Pow2(n - 1)

\* the loop "value += 2 ** exponent" over enumerate(exponent_values)
RECURSIVE SumWhite(_, _)
SumWhite(exponent_values, exponent) ==
    IF exponent >= Len(exponent_values) THEN 0
    ELSE (IF exponent_values[exponent + 1] = 1 THEN Pow2(exponent) ELSE 0)
         + SumWhite(exponent_values, exponent + 1)

\* round(np.mean(barcode_image)) > 250
IsWhiteFrame(barcode_image) ==
    LET st == SliceStats(barcode_image, 0, Len(barcode_image[1]))
    IN  PyRound(st.sum, st.n) > 250

IsWhiteFrame_MeanAbove250(barcode_image) ==
    LET st == SliceStats(barcode_image, 0, Len(barcode_image[1]))
    IN  st.sum > 250 * st.n

get_barcode_value_NotReversed(barcode_image) ==
    LET exponent_values == cell_values(barcode_image)
    IN  IF (\A e \in 1..Len(exponent_values) : exponent_values[e] = 1)
           /\ IsWhiteFrame(barcode_image)
        THEN 0
        ELSE SumWhite(exponent_values, 0)

get_barcode_value(barcode_image) ==
    LET exponent_values == Reverse(cell_values(barcode_image))
    IN  IF (\A e \in 1..Len(exponent_values) : exponent_values[e] = 1)
           /\ IsWhiteFrame(barcode_image)
        THEN 0
        ELSE SumWhite(exponent_values, 0)

\* ------------------------------------------------------------ frames of a video
\* A frame is a sequence of rows of luminances (channel 0); coordinates maps
\* xOffset, yOffset, width, height to integers.
\* frame[yOffset + 1 : yOffset + height, xOffset : xOffset + width + 3]
get_barcode_image(frame, coordinates) ==
    LET rows == SubSeq(frame, coordinates.yOffset + 2,
                       IF coordinates.yOffset + coordinates.height < Len(frame)
                       THEN coordinates.yOffset + coordinates.height ELSE Len(frame))
    IN  [r \in 1..Len(rows) |->
            SubSeq(rows[r], coordinates.xOffset + 1,
                   IF coordinates.xOffset + coordinates.width + 3 < Len(rows[r])
                   THEN coordinates.xOffset + coordinates.width + 3 ELSE Len(rows[r]))]

default_coordinates ==
    [xOffset |-> <<"0">>, yOffset |-> <<"0">>, width |-> <<"1", "2", "9">>, height |-> <<"3">>]

\* video_info.get("BarcodeCoordinates", default_coordinates), each value
\* through int()
get_barcode_image_coordinates(video_info) ==
    LET given == IF "BarcodeCoordinates" \in DOMAIN video_info
                 THEN video_info.BarcodeCoordinates ELSE default_coordinates
    IN  [k \in DOMAIN given |-> int(given[k])]

\* video_data: [num_frames, frames], frames[k + 1] the frame at position k.
\* Reads frame frame_number and decodes it; a frame other than 0 that decodes
\* to 0 fails the assert.
get_barcode_value_from_frame(video_data, frame_number, barcode_image_coordinates) ==
    LET frame == video_data.frames[frame_number + 1]
        barcode_image == get_barcode_image(frame, barcode_image_coordinates)
        value == get_barcode_value(barcode_image)
    IN  IF value = 0 /\ frame_number # 0 THEN Raise("AssertionError") ELSE Return(value)

\* a bool and an int of a json, held by their repr
PyBool(x) == [type |-> "bool", v |-> IF x THEN "True" ELSE "False"]

PyInt(repr) == [type |-> "int", v |-> repr]

\* bool(x)
Truthy(x) ==
    IF x.type = "bool" THEN x.v = "True"
    ELSE IF x.type = "str" THEN x.v # ""
    ELSE x.v # "0"

\* video_info.get("FrameID imprint enabled", False)
imprint_flag(video_info) ==
    IF "FrameID_imprint_enabled" \in DOMAIN video_info
    THEN video_info.FrameID_imprint_enabled ELSE PyBool(FALSE)

\* the result with the number of frames read from the video on the way
WithReads(r, n) == [err |-> r.err, val |-> r.val, reads |-> n]

get_frame_number_from_barcode_Truthy(video_data, video_info, frame_number) ==
    IF ~Truthy(imprint_flag(video_info))
    THEN WithReads(Raise("ValueError"), 0)
    ELSE WithReads(get_barcode_value_from_frame(
                       video_data, frame_number, get_barcode_image_coordinates(video_info)), 1)

get_frame_number_from_barcode(video_data, video_info, frame_number) ==
    IF ~PyEq(imprint_flag(video_info), PyStr("true"))
    THEN WithReads(Raise("ValueError"), 0)
    ELSE WithReads(get_barcode_value_from_frame(
                       video_data, frame_number, get_barcode_image_coordinates(video_info)), 1)

\* ------------------------------------------------------------ MVRDataset
\* A session: sync (the SyncDataset, with its start_time), video_paths (the
\* cameras in the order of the video_paths dict), info_data (camera ->
\* RecordingReport) and video_data (camera -> [num_frames, frames]).

get_total_frames_in_video(session, camera) == session.video_data[camera].num_frames

\* MVRDataset.frame_times
frame_times(session) ==
    get_video_frame_times(session.sync,
                          {session.video_paths[i] : i \in 1..Len(session.video_paths)},
                          session.info_data,
                          [c \in CameraNames |-> get_total_frames_in_video(session, c)],
                          TRUE)

\* what one pass of the loop of augmented_camera_info adds to the camera's
\* info, uncorrected being what get_video_frame_times returned or raised.
\* FramesRecorded = 0 is a ZeroDivisionError.
augmented_entry(session, camera_name, uncorrected) ==
    LET camera_info == session.info_data[camera_name]
        frames_lost == camera_info.FramesLostCount
        num_exposures == Len(get_cam_exposing_times_on_sync(session.sync)[camera_name])
        num_transfers == Len(get_cam_transfer_times_on_sync(session.sync)[camera_name])
        num_frames_in_video == get_total_frames_in_video(session, camera_name)
        num_expected_from_sync == num_transfers - frames_lost + 1
    IN  IF ~Returned(uncorrected) THEN uncorrected
        ELSE IF camera_info.FramesRecorded = 0 THEN Raise("ZeroDivisionError")
        ELSE Return([num_frames_exposed |-> num_exposures,
                     num_frames_transfered |-> num_transfers,
                     num_frames_in_video |-> num_frames_in_video,
                     num_frames_expected_from_sync |-> num_expected_from_sync,
                     expected_minus_actual |-> num_expected_from_sync - num_frames_in_video,
                     num_frames_from_sync |-> Len(uncorrected.val[camera_name]),
                     lost_frame_percentage |->
                         [num |-> 100 * camera_info.FramesLostCount,
                          den |-> camera_info.FramesRecorded]])

\* one pass of the loop of augmented_camera_info: get_video_frame_times is
\* called with the video path of this camera alone
augmented_info_of(session, camera_name) ==
    augmented_entry(session, camera_name,
        get_video_frame_times(session.sync, {camera_name}, session.info_data,
                              [c \in CameraNames |-> get_total_frames_in_video(session, c)],
                              FALSE))

\* the index of the first pass of a loop that raised, or 0
first_raised(passes) ==
    LET raised == {i \in 1..Len(passes) : ~Returned(passes[i])}
    IN  IF raised = {} THEN 0 ELSE CHOOSE i \in raised : \A j \in raised : i <= j

\* a property filling a dict camera by camera, in the order of video_paths:
\* the exception of the first pass that raised, or the dict
dict_by_camera(order, passes) ==
    IF first_raised(passes) # 0 THEN passes[first_raised(passes)]
    ELSE Return([c \in {order[i] : i \in 1..Len(order)} |->
                    passes[CHOOSE i \in 1..Len(order) : order[i] = c].val])

\* MVRDataset.augmented_camera_info
augmented_camera_info(session) ==
    dict_by_camera(session.video_paths,
                   [i \in 1..Len(session.video_paths) |->
                       augmented_info_of(session, session.video_paths[i])])

\* the barcode value of the last frame less its index; a ValueError of
\* get_frame_number_from_barcode is raised as an AttributeError
lost_frames_from_barcode(actual_last_frame_index, last_frame_barcode_value) ==
    IF last_frame_barcode_value.err = "ValueError" THEN Raise("AttributeError")
    ELSE IF ~Returned(last_frame_barcode_value) THEN Raise(last_frame_barcode_value.err)
    ELSE Return(last_frame_barcode_value.val - actual_last_frame_index)

\* one pass of the loop of num_lost_frames_from_barcodes
lost_frames_from_barcode_of(session, camera_name) ==
    lost_frames_from_barcode(
        session.video_data[camera_name].num_frames - 1,
        get_frame_number_from_barcode(session.video_data[camera_name],
                                      session.info_data[camera_name],
                                      session.video_data[camera_name].num_frames - 1))

\* MVRDataset.num_lost_frames_from_barcodes
num_lost_frames_from_barcodes(session) ==
    dict_by_camera(session.video_paths,
                   [i \in 1..Len(session.video_paths) |->
                       lost_frames_from_barcode_of(session, session.video_paths[i])])

\* frame_rate in hundredths of a frame per second: abs(frame_rate - 60) <= 0.05
is_acceptable_frame_rate(frame_rate) == Abs(frame_rate - 6000) <= 5

\* lost_frame_percentage < 0.05, the percentage being the fraction num/den
is_acceptable_lost_frame_percentage(lost_frame_percentage) ==
    20 * lost_frame_percentage.num < lost_frame_percentage.den

is_acceptable_expected_minus_actual_frame_count(expected_minus_actual) ==
    Abs(expected_minus_actual) < 20

\* "fail": the check raises its AssertionError
verdict(bad) == IF bad THEN "fail" ELSE "pass"

\* the check of the lost frames: skipped when hasattr finds the property
\* raising AttributeError; any other exception of the property, or of
\* get_lost_frames_from_camera_info, leaves validate
lost_frames_check(camera, barcodes, in_json) ==
    IF barcodes.err = "AttributeError" THEN "pass"
    ELSE IF ~Returned(barcodes) THEN barcodes.err
    ELSE IF ~Returned(in_json) THEN in_json.err
    ELSE verdict(Len(in_json.val) # barcodes.val[camera])

\* the checks of one pass of validate's loop, numbered in the order of the
\* code: "pass", "fail" or the exception that evaluating the check raises
check_outcome(session, camera, k, augmented_info, times) ==
    CASE k = 1 ->
           verdict(~(\E i \in 1..Len(times) : times[i] # 0)
                   \/ (\A i \in 1..Len(times) : times[i] = NaN))
      [] k = 2 ->
           verdict(session.video_data[camera].num_frames
                       - session.info_data[camera].FramesRecorded > 1)
      [] k = 3 -> verdict(session.info_data[camera].TimeStart < session.sync.start_time)
      [] k = 4 ->
           lost_frames_check(camera, num_lost_frames_from_barcodes(session),
                             get_lost_frames_from_camera_info(session.info_data[camera]))
      [] k = 5 -> verdict(~is_acceptable_frame_rate(session.info_data[camera].FPS))
      [] k = 6 ->
           verdict(~is_acceptable_lost_frame_percentage(augmented_info.lost_frame_percentage))
      [] OTHER ->
           verdict(/\ ~is_acceptable_expected_minus_actual_frame_count(
                          augmented_info.expected_minus_actual)
                   /\ augmented_info.num_frames_expected_from_sync
                          # augmented_info.num_frames_from_sync)

NumChecks == 7

\* the j-th check validate gets to if none before it stops it
step_camera(session, j) == session.video_paths[((j - 1) \div NumChecks) + 1]

step_check(j) == ((j - 1) % NumChecks) + 1

all_steps(session) ==
    [j \in 1..(NumChecks * Len(session.video_paths)) |->
        <<step_camera(session, j), step_check(j)>>]

\* the index of the first check that does not pass, or 0
first_stop(outcomes) ==
    LET stopped == {j \in 1..Len(outcomes) : outcomes[j] # "pass"}
    IN  IF stopped = {} THEN 0 ELSE CHOOSE j \in stopped : \A i \in stopped : j <= i

\* what validate does once its checks have the outcomes given.  err as for
\* every call; failed: the <<camera, check>> whose AssertionError was raised;
\* log: the checks evaluated, in order
validate_outcome(steps, outcomes) ==
    IF first_stop(outcomes) = 0 THEN [err |-> "", failed |-> <<>>, log |-> steps]
    ELSE IF outcomes[first_stop(outcomes)] = "fail"
    THEN [err |-> "AssertionError", failed |-> steps[first_stop(outcomes)],
          log |-> SubSeq(steps, 1, first_stop(outcomes))]
    ELSE [err |-> outcomes[first_stop(outcomes)], failed |-> <<>>,
          log |-> SubSeq(steps, 1, first_stop(outcomes))]

\* validate's loop, given what the properties augmented_camera_info and
\* frame_times returned or raised when the first pass evaluated them
validate_loop(session, augmented, times) ==
    IF ~Returned(augmented) THEN [err |-> augmented.err, failed |-> <<>>, log |-> <<>>]
    ELSE IF ~Returned(times) THEN [err |-> times.err, failed |-> <<>>, log |-> <<>>]
    ELSE validate_outcome(
             all_steps(session),
             [j \in 1..(NumChecks * Len(session.video_paths)) |->
                 check_outcome(session, step_camera(session, j), step_check(j),
                               augmented.val[step_camera(session, j)],
                               times.val[step_camera(session, j)])])

\* MVRDataset.validate
validate(session) ==
    IF Len(session.video_paths) = 0 THEN [err |-> "", failed |-> <<>>, log |-> <<>>]
    ELSE validate_loop(session, augmented_camera_info(session), frame_times(session))

\* ============================================================ SpecResolver
\* get_camera_sync_line_name_mapping on a sync file whose six camera lines
\* start in some order and whose exposing lines open with a fingerprint burst.

\* most rising edges of a generated camera line
MaxEdges == 3

\* A camera line of a recording: n pulses, one frame period (34 ticks) apart,
\* from the tick `start` on; the first 8 are `burst` ticks long and the rest 30.
PulseTrain(start, n, burst) ==
    [rising |-> [i \in 1..n |-> start + (i - 1) * 34],
     falling |-> [i \in 1..n |-> start + (i - 1) * 34 + (IF i <= 8 THEN burst ELSE 30)]]

\* The sync dataset in which prefix p's exposing line starts at startE[p] with
\* nE[p] pulses of burst[p] ticks and its readout line starts at startR[p]
\* with nR[p] pulses.
SyncData(startE, startR, burst, nE, nR) ==
    LET train(line) ==
            IF line[2] = "_cam_exposing"
            THEN PulseTrain(startE[line[1]], nE[line[1]], burst[line[1]])
            ELSE PulseTrain(startR[line[1]], nR[line[1]], 4)
    IN  [rising |-> [line \in {StartTimeKeys[i] : i \in 1..6} |-> train(line).rising],
         falling |-> [line \in {StartTimeKeys[i] : i \in 1..6} |-> train(line).falling],
         start_time |-> 0]

\* first rising edges: each camera starts exposing at one of three ticks and
\* its readout follows 3 ticks later or 13 ticks later (after the next camera)
StartChoices == [CameraNamesOnSync -> {100, 110, 120}]

ReadoutDelays == [CameraNamesOnSync -> {3, 13}]

\* fingerprint bursts on sync, in ticks, and nominal durations in the jsons, in ms
BurstChoices == [CameraNamesOnSync -> {11, 12, 16, 20}]

NominalChoices == [CameraNames -> {6, 8, 10}]

\* a rig wired as meant: beh, face, eye start in turn, each readout right
\* after its exposure, with bursts of 6, 8 and 10 ms
WiredStarts == [p \in CameraNamesOnSync |->
                   IF p = "beh" THEN 100 ELSE IF p = "face" THEN 110 ELSE 120]

WiredBursts == [p \in CameraNamesOnSync |->
                   IF p = "beh" THEN 12 ELSE IF p = "face" THEN 16 ELSE 20]

WiredNominals == [c \in CameraNames |->
                   IF c = "behavior" THEN 6 ELSE IF c = "face" THEN 8 ELSE 10]

\* the RecordingReport of a camera, for the resolver
ResolverJson(nominal) == [CustomInitialExposureTime |-> nominal]

ResolverArgs(startE, delay, burst, nominal, n) ==
    [sync |-> SyncData(startE,
                       [p \in CameraNamesOnSync |-> startE[p] + delay[p]],
                       burst,
                       [p \in CameraNamesOnSync |-> IF p = "eye" THEN n ELSE 9],
                       [p \in CameraNamesOnSync |-> 9]),
     jsons |-> [c \in CameraNames |-> ResolverJson(nominal[c])]]

InitResolver ==
    /\ pc = "call"
    /\ ret = None
    /\ \/ \E startE \in StartChoices, delay \in ReadoutDelays, n \in 0..MaxEdges :
            args = ResolverArgs(startE, delay, WiredBursts, WiredNominals, n)
       \/ \E burst \in BurstChoices, nominal \in NominalChoices :
            args = ResolverArgs(WiredStarts, [p \in CameraNamesOnSync |-> 3],
                                burst, nominal, 9)

CallResolver ==
    /\ pc = "call"
    /\ ret' = get_camera_sync_line_name_mapping(args.sync, args.jsons)
    /\ pc' = "done"
    /\ UNCHANGED args

NextResolver == CallResolver

SpecResolver == InitResolver /\ [][NextResolver]_vars

\* every one of the six lines has a first rising edge
LinesPresent(sync) == \A i \in 1..6 : Len(sync.rising[StartTimeKeys[i]]) > 0

\* 0-indexed position of a line among the six sorted ascending by first rising
\* edge (equal edges in the order beh, face, eye; exposing before readout)
SortedPosition(sync, line) ==
    LET t(l) == sync.rising[l][1]
        ord(l) == CHOOSE i \in 1..6 : StartTimeKeys[i] = l
    IN  Cardinality({l \in {StartTimeKeys[i] : i \in 1..6} :
                        t(l) < t(line) \/ (t(l) = t(line) /\ ord(l) < ord(line))})

\* each prefix's readout line sits right after its exposing line
WiringOrderHolds(sync) ==
    \A p \in CameraNamesOnSync :
        SortedPosition(sync, Line(p, "_cam_frame_readout"))
            = SortedPosition(sync, Line(p, "_cam_exposing")) + 1

\* C5: if some prefix's readout line is not at its exposing line's position
\* plus one the resolution aborts with the diagnostic (the assertion's
\* message); if all three are, a mapping covering the three roles is returned.
C5_OrderingCheckDecides ==
    (pc = "done" /\ LinesPresent(args.sync)) =>
        IF WiringOrderHolds(args.sync)
        THEN Returned(ret) /\ DOMAIN ret.val = CameraNames
        ELSE ret.err = "AssertionError"

\* measured signature of a prefix's exposing line as a fraction of a ms:
\* <<sum of the first 8 falling-minus-rising differences, 8 * TicksPerMs>>
MeasuredSignature(sync, p) ==
    LET rising == Prefix(sync.rising[Line(p, "_cam_exposing")], FingerprintPulses)
        falling == Prefix(sync.falling[Line(p, "_cam_exposing")], FingerprintPulses)
    IN  <<SumSeq(falling) - SumSeq(rising), Len(rising) * TicksPerMs>>

\* |nominal - m1| <= |nominal - m2| for fractions m1, m2
NoFarther(nominal, m1, m2) ==
    Abs(nominal * m1[2] - m1[1]) * m2[2] <= Abs(nominal * m2[2] - m2[1]) * m1[2]

\* C6: every role is assigned a physical line whose measured signature
\* duration is at the least absolute difference from the role's nominal one.
C6_ClosestFingerprintAssigned ==
    (pc = "done" /\ LinesPresent(args.sync) /\ WiringOrderHolds(args.sync)) =>
        /\ Returned(ret)
        /\ \A c \in CameraNames : \A p \in CameraNamesOnSync :
              NoFarther(args.jsons[c].CustomInitialExposureTime,
                        MeasuredSignature(args.sync, ret.val[c]),
                        MeasuredSignature(args.sync, p))

\* the match of roles to lines sends no two roles to one line
MatchIsInjective(sync, jsons) ==
    LET actual == actual_exposure_fingerprint_durations(sync)
        m(c) == closest_line(jsons[c].CustomInitialExposureTime, actual)
    IN  \A c1, c2 \in CameraNames : c1 # c2 => m(c1) # m(c2)

\* C7: the call returns a bijection between the roles and the prefixes, and a
\* match that is no bijection raises instead of being returned.
C7_MappingIsBijection ==
    (pc = "done" /\ LinesPresent(args.sync) /\ WiringOrderHolds(args.sync)) =>
        IF MatchIsInjective(args.sync, args.jsons)
        THEN /\ Returned(ret)
             /\ DOMAIN ret.val = CameraNames
             /\ {ret.val[c] : c \in CameraNames} = CameraNamesOnSync
        ELSE ~Returned(ret)

\* ============================================================ SpecLost
\* get_lost_frames_from_camera_info on metadata whose LostFrames string was
\* written from a list of spans.
SeqsUpTo(S, n) == UNION {[1..k -> S] : k \in 0..n}

Spans == {<<a>> : a \in 1..MaxFrame} \cup {<<a, b>> : a \in 1..MaxFrame, b \in 1..MaxFrame}

\* the docstring's example '1-2,4-5,7' and spans with two-digit frame numbers
ExampleSpanLists ==
    { <<<<1, 2>>, <<4, 5>>, <<7>>>>,
      <<<<9, 11>>>>,
      <<<<10>>, <<99, 101>>, <<12, 11>>>> }

FormatSpan(sp) ==
    IF Len(sp) = 1 THEN str(sp[1]) ELSE str(sp[1]) \o <<"-">> \o str(sp[2])

RECURSIVE FormatSpans(_)
FormatSpans(sps) ==
    IF Len(sps) = 0 THEN <<>>
    ELSE IF Len(sps) = 1 THEN FormatSpan(sps[1])
    ELSE FormatSpan(sps[1]) \o <<",">> \o FormatSpans(Tail(sps))

\* strings that are no list of spans
MalformedStrings == { <<"1", "-">>, <<"1", ",", ",", "2">>, <<"-", "3">> }

InitLost ==
    /\ pc = "call"
    /\ ret = None
    /\ \E n \in 0..2 :
         \/ \E sps \in SeqsUpTo(Spans, MaxSpans) \cup ExampleSpanLists :
              args = [FramesLostCount |-> n, LostFrames |-> <<FormatSpans(sps)>>,
                      spans |-> sps, wellformed |-> Len(sps) > 0]
         \/ \E s \in MalformedStrings :
              args = [FramesLostCount |-> n, LostFrames |-> <<s>>,
                      spans |-> <<>>, wellformed |-> FALSE]

CallLost ==
    /\ pc = "call"
    /\ ret' = get_lost_frames_from_camera_info(args)
    /\ pc' = "done"
    /\ UNCHANGED args

NextLost == CallLost

SpecLost == InitLost /\ [][NextLost]_vars

\* the 1-indexed frames a span list names, in span order
RECURSIVE FramesNamed(_)
FramesNamed(sps) ==
    IF Len(sps) = 0 THEN <<>>
    ELSE LET sp == Head(sps)
             lo == sp[1]
             hi == sp[Len(sp)]
         IN  [k \in 1..(IF hi >= lo THEN hi - lo + 1 ELSE 0) |-> lo + k - 1]
             \o FramesNamed(Tail(sps))

\* C3: for a LostFrames string that lists spans 'a' / 'a-b', the result is the
\* 0-indexed position i-1 of every frame i of every span, in span order; with
\* FramesLostCount = 0 the result is empty.
C3_LostFramesExpanded ==
    pc = "done" =>
      /\ args.FramesLostCount = 0 => ret = Return(<<>>)
      /\ (args.FramesLostCount # 0 /\ args.wellformed) =>
            /\ Returned(ret)
            /\ Len(ret.val) = Len(FramesNamed(args.spans))
            /\ \A k \in 1..Len(ret.val) : ret.val[k] = FramesNamed(args.spans)[k] - 1

C3_Witness ==
    /\ pc = "done"
    /\ args.FramesLostCount # 0
    /\ args.spans = <<<<1, 2>>, <<4, 5>>, <<7>>>>
    /\ ret.val = <<0, 1, 3, 4, 6>>

\* ============================================================ SpecRemove
TimeValues == 1..3

LostIndexValues == (0 - 1)..(MaxLen + 1)

InitRemove ==
    /\ pc = "call"
    /\ ret = None
    /\ \E ts \in SeqsUpTo(TimeValues, MaxLen), lost \in SeqsUpTo(LostIndexValues, MaxLost) :
         args = [frame_times |-> ts, lost_frame_idx |-> lost]

CallRemove ==
    /\ pc = "call"
    /\ ret' = Return(remove_lost_frame_times(args.frame_times, args.lost_frame_idx))
    /\ pc' = "done"
    /\ UNCHANGED args

NextRemove == CallRemove

SpecRemove == InitRemove /\ [][NextRemove]_vars

\* 0-indexed positions of frame_times that are not lost
Survivors(ts, lost) == {i \in 0..(Len(ts) - 1) : ~Contains(lost, i)}

\* the k-th (1-based) smallest surviving position
KthSurvivor(ts, lost, k) ==
    CHOOSE i \in Survivors(ts, lost) :
        Cardinality({j \in Survivors(ts, lost) : j <= i}) = k

\* C4: the result holds exactly the entries whose 0-indexed position is not in
\* the lost set, in their original order; an empty lost set returns the input.
C4_RemovesExactlyLost ==
    pc = "done" =>
      LET ts == args.frame_times
          lost == args.lost_frame_idx
      IN  /\ Len(ret.val) = Cardinality(Survivors(ts, lost))
          /\ \A k \in 1..Len(ret.val) : ret.val[k] = ts[KthSurvivor(ts, lost, k) + 1]
          /\ lost = <<>> => ret.val = ts

C4_Witness ==
    /\ pc = "done"
    /\ args.frame_times = <<1, 2, 3, 1>>
    /\ args.lost_frame_idx = <<1, 5>>
    /\ ret.val = <<1, 3, 1>>

\* ============================================================ SpecFrameTimes
\* get_video_frame_times on the three videos of a session.

\* the RecordingReport of a camera: its fingerprint and its lost frames
\* (LostFrames written from a list of spans)
CameraJson(nominal, sps) ==
    [CustomInitialExposureTime |-> nominal,
     FramesLostCount |-> Len(FramesNamed(sps)),
     LostFrames |-> <<FormatSpans(sps)>>]

\* lost-frame span lists of a generated session
LostChoices == { <<>>, <<<<1>>>>, <<<<2>>>>, <<<<1, 2>>>>, <<<<1>>, <<3>>>>, <<<<5>>>> }

\* the ways the three fingerprint bursts can be wired to the three lines
BurstWirings == {b \in [CameraNamesOnSync -> {12, 16, 20}] :
                    \A p, q \in CameraNamesOnSync : p # q => b[p] # b[q]}

FrameTimesArgs(burst, nE, sps, V, apply_correction) ==
    [sync |-> SyncData(WiredStarts, [p \in CameraNamesOnSync |-> WiredStarts[p] + 3],
                       burst, nE, nE),
     cams |-> CameraNames,
     jsons |-> [c \in CameraNames |-> CameraJson(WiredNominals[c], sps[c])],
     num_frames |-> V,
     spans |-> sps,
     apply_correction |-> apply_correction]

\* Section 8's scenario: 100 exposing edges, 0-indexed frame 5 lost, 100
\* frames in the video
ScenarioArgs ==
    FrameTimesArgs(WiredBursts, [p \in CameraNamesOnSync |-> 100],
                   [c \in CameraNames |-> <<<<6>>>>], [c \in CameraNames |-> 100], TRUE)

InitFrameTimes ==
    /\ pc = "call"
    /\ ret = None
    /\ \/ \E burst \in BurstWirings, n \in 0..MaxEdges, sps \in LostChoices,
             V \in 0..(MaxEdges + 2), apply_correction \in BOOLEAN :
            args = FrameTimesArgs(
                     burst,
                     [p \in CameraNamesOnSync |-> IF p = "beh" THEN n ELSE 2],
                     [c \in CameraNames |-> IF c = "behavior" THEN sps ELSE <<>>],
                     [c \in CameraNames |-> IF c = "behavior" THEN V ELSE 3],
                     apply_correction)
       \/ args = ScenarioArgs

CallFrameTimes ==
    /\ pc = "call"
    /\ ret' = get_video_frame_times(args.sync, args.cams, args.jsons,
                                    args.num_frames, args.apply_correction)
    /\ pc' = "done"
    /\ UNCHANGED args

NextFrameTimes == CallFrameTimes

SpecFrameTimes == InitFrameTimes /\ [][NextFrameTimes]_vars

\* C1: with correction on, for every frame count V, edge count E and lost
\* set, every array the call returns has exactly V entries (padded with NaN
\* or cut), so the call returns and its length assertion never fires.
C1_LengthEqualsVideoFrameCount ==
    (pc = "done" /\ args.apply_correction) =>
        /\ Returned(ret)
        /\ \A camera \in args.cams : Len(ret.val[camera]) = args.num_frames[camera]

\* the physical line whose fingerprint matches the role's nominal one
ResolvedLine(sync, jsons, camera) ==
    closest_line(jsons[camera].CustomInitialExposureTime,
                 actual_exposure_fingerprint_durations(sync))

\* C2: with correction on and V >= 1 the array of a role has NaN at index 0
\* and, at every index k from 1 to min(V-1, S), the k-th surviving rising edge
\* of the exposing line resolved for the role; a removed edge is not in it.
C2_SurvivingEdgesInOrder ==
    (pc = "done" /\ args.apply_correction /\ LinesPresent(args.sync)) =>
        /\ Returned(ret)
        /\ \A camera \in args.cams :
              LET V == args.num_frames[camera]
                  edges == args.sync.rising[
                             Line(ResolvedLine(args.sync, args.jsons, camera), "_cam_exposing")]
                  lost == subtract(FramesNamed(args.spans[camera]), 1)
                  S == Cardinality(Survivors(edges, lost))
                  times == ret.val[camera]
              IN  V >= 1 =>
                    /\ times[1] = NaN
                    /\ \A k \in 1..(IF V - 1 < S THEN V - 1 ELSE S) :
                          times[k + 1] = edges[KthSurvivor(edges, lost, k) + 1]
                    /\ \A i \in 1..Len(edges) :
                          Contains(lost, i - 1) => ~Contains(times, edges[i])

\* ============================================================ SpecBarcode
\* get_barcode_value on cropped strips: 2 rows of 132 pixels (the default
\* BarcodeCoordinates), every pixel of a cell of one luminance and every
\* border and separator pixel of another.

\* most cells of a generated strip that differ from the others
MaxOddCells == 2

\* 0-indexed cell (0 = leftmost) that column col lies in, or 20 for a border
\* or separator column
CellOfColumn(col) ==
    LET g == col \div 27
        x == col % 27
    IN  IF x < 24 /\ (x % 6) \in 1..4 THEN g * 4 + (x \div 6) ELSE 20

Strip(cells, edge) ==
    LET row == [c \in 1..132 |->
                  IF CellOfColumn(c - 1) < 20 THEN cells[CellOfColumn(c - 1)] ELSE edge]
    IN  <<row, row>>

\* luminances on either side of the black/grey and grey/white thresholds
CellLuminances == {0, 64, 191, 192, 255}

OddCellLuminances == {0, 255}

\* with every cell at 255 an edge of 243 brings the strip's mean to 250.27
\* and one of 244 to 250.67
EdgeLuminances == {128, 243, 244, 255}

InitBarcode ==
    /\ pc = "call"
    /\ ret = None
    /\ \E odd \in {S \in SUBSET (0..19) : Cardinality(S) <= MaxOddCells},
          c0 \in CellLuminances, c1 \in OddCellLuminances, edge \in EdgeLuminances :
         args = [barcode_image |-> Strip([i \in 0..19 |-> IF i \in odd THEN c1 ELSE c0], edge)]

CallBarcode ==
    /\ pc = "call"
    /\ ret' = Return(get_barcode_value(args.barcode_image))
    /\ pc' = "done"
    /\ UNCHANGED args

NextBarcode == CallBarcode

SpecBarcode == InitBarcode /\ [][NextBarcode]_vars

\* cell i (0 = leftmost) reads white: its mean luminance normalises to 1,
\* which is mean/255*2 - 1 > 1/2
ReadsWhite(image, i) ==
    LET st == SliceStats(image, 27 * (i \div 4) + 6 * (i % 4) + 1,
                                27 * (i \div 4) + 6 * (i % 4) + 5)
    IN  4 * st.sum > 3 * 255 * st.n

WhiteCells(image) == {i \in 0..19 : ReadsWhite(image, i)}

RECURSIVE SumOver(_)
\* the sum of 2^(19-i) over a set of cells
SumOver(S) ==
    IF S = {} THEN 0
    ELSE LET i == CHOOSE x \in S : TRUE IN Pow2(19 - i) + SumOver(S \ {i})

StripSum(image) == SumSeq(image[1]) + SumSeq(image[2])

\* C9 as amended: 0 if all 20 cells read white and the strip's mean luminance
\* rounded to an integer exceeds 250 (the mean exceeds 250.5); otherwise the
\* sum of 2^(19-i) over the white cells i; always within 0..2^20-1.
C9_DecodesWhiteCells ==
    pc = "done" =>
      LET image == args.barcode_image
      IN  /\ ret.val = IF WhiteCells(image) = 0..19 /\ 2 * StripSum(image) > 501 * 264
                       THEN 0
                       ELSE SumOver(WhiteCells(image))
          /\ ret.val \in 0..(Pow2(20) - 1)

\* C9 as claimed: the shortcut is taken whenever the mean exceeds 250
C9_Original_MeanAbove250 ==
    pc = "done" =>
      LET image == args.barcode_image
      IN  ret.val = IF WhiteCells(image) = 0..19 /\ StripSum(image) > 250 * 264
                    THEN 0
                    ELSE SumOver(WhiteCells(image))

\* an all-white-cell strip decoded by the normal path, and one read as metadata
C9_Witness ==
    /\ pc = "done"
    /\ WhiteCells(args.barcode_image) = 0..19
    /\ StripSum(args.barcode_image) <= 250 * 264
    /\ ret.val = Pow2(20) - 1

\* ============================================================ SpecFrameNumber
\* get_frame_number_from_barcode on a recorded video.

\* the bits of a frame id, most significant first, as cell luminances
IdCells(id) == [i \in 0..19 |-> IF (id \div Pow2(19 - i)) % 2 = 1 THEN 255 ELSE 0]

\* A frame as MVR writes it: a row above the barcode, then the 2 rows of the
\* strip.  Frame 0 is the metadata frame, white all over; another frame
\* carries its id in the strip, between grey dividers.
RecordedFrame(id) ==
    LET strip == IF id = 0 THEN Strip([i \in 0..19 |-> 255], 255)
                 ELSE Strip(IdCells(id), 128)
    IN  <<strip[1]>> \o strip

\* A video of V frames of which `lost` were dropped before its last frame:
\* position k > 0 holds the frame of id k, the last position that of id
\* V - 1 + lost.
RecordedVideo(V, lost) ==
    [num_frames |-> V,
     frames |-> [k \in 1..V |->
                   RecordedFrame(IF k = 1 THEN 0 ELSE IF k = V THEN k - 1 + lost ELSE k - 1)]]

\* what "FrameID imprint enabled" may hold in an info.json
ImprintFlags ==
    { PyStr("true"), PyStr("false"), PyStr("True"), PyStr("1"), PyStr(""),
      PyBool(TRUE), PyBool(FALSE), PyInt("1"), PyInt("0") }

InitFrameNumber ==
    /\ pc = "call"
    /\ ret = None
    /\ \E V \in 1..(MaxEdges + 1), lost \in 0..2 : \E frame_number \in 0..(V - 1) :
         \/ \E flag \in ImprintFlags :
              args = [video_data |-> RecordedVideo(V, lost),
                      video_info |-> [FrameID_imprint_enabled |-> flag],
                      frame_number |-> frame_number]
         \/ args = [video_data |-> RecordedVideo(V, lost),
                    video_info |-> [FramesRecorded |-> V - 1],
                    frame_number |-> frame_number]

CallFrameNumber ==
    /\ pc = "call"
    /\ ret' = get_frame_number_from_barcode(args.video_data, args.video_info,
                                            args.frame_number)
    /\ pc' = "done"
    /\ UNCHANGED args

NextFrameNumber == CallFrameNumber

SpecFrameNumber == InitFrameNumber /\ [][NextFrameNumber]_vars

\* C10 as amended: the frame is read if and only if the flag is the string
\* "true"; with any other flag, or none, the call fails with the
\* barcode-unavailable error before a frame is read, and with "true" it does
\* not raise that error.
C10_ReadsIffFlagIsTrueString ==
    pc = "done" =>
      IF PyEq(imprint_flag(args.video_info), PyStr("true"))
      THEN ret.reads = 1 /\ ret.err # "ValueError"
      ELSE ret.reads = 0 /\ ret.err = "ValueError"

\* C10 as claimed: the frame is read if and only if the flag is truthy
C10_Original_ReadsIffTruthy ==
    pc = "done" =>
      IF Truthy(imprint_flag(args.video_info))
      THEN ret.reads = 1 /\ ret.err # "ValueError"
      ELSE ret.reads = 0 /\ ret.err = "ValueError"

\* a frame decoded under the flag "true"
C10_Witness ==
    /\ pc = "done"
    /\ PyEq(imprint_flag(args.video_info), PyStr("true"))
    /\ args.frame_number = 2
    /\ ret.reads = 1
    /\ ret = WithReads(Return(3), 1)

\* ============================================================ SpecValidate
\* MVRDataset.validate on a session of three cameras.

\* the RecordingReport of a camera of a session
SessionJson(nominal, sps, recorded, fps, time_start, flag) ==
    [CustomInitialExposureTime |-> nominal,
     FramesLostCount |-> Len(FramesNamed(sps)),
     LostFrames |-> <<FormatSpans(sps)>>,
     FramesRecorded |-> recorded,
     FPS |-> fps,
     TimeStart |-> time_start,
     FrameID_imprint_enabled |-> flag]

\* A session recorded on a rig wired as meant, sync started at tick 50.  The
\* behavior camera has n sync pulses and V video frames and its info.json
\* is json; face and eye have 2 pulses, 2 frames and nothing lost.
Session(order, n, V, barcode_lost, json) ==
    [sync |-> [SyncData(WiredStarts, [p \in CameraNamesOnSync |-> WiredStarts[p] + 3],
                        WiredBursts,
                        [p \in CameraNamesOnSync |-> IF p = "beh" THEN n ELSE 2],
                        [p \in CameraNamesOnSync |-> IF p = "beh" THEN n ELSE 2])
               EXCEPT !.start_time = 50],
     video_paths |-> order,
     info_data |-> [c \in CameraNames |->
                      IF c = "behavior" THEN json
                      ELSE SessionJson(WiredNominals[c], <<>>, 1, 6000, 60, PyStr("true"))],
     video_data |-> [c \in CameraNames |->
                      IF c = "behavior" THEN RecordedVideo(V, barcode_lost)
                      ELSE RecordedVideo(2, 0)]]

CameraOrders == { <<"behavior", "face", "eye">>, <<"eye", "face", "behavior">> }

InitValidate ==
    /\ pc = "call"
    /\ ret = None
    /\ \E order \in CameraOrders, n \in {1, MaxEdges}, V \in {2, MaxEdges + 1},
          barcode_lost \in 0..1, sps \in {<<>>, <<<<1>>>>},
          recorded \in {0, 3}, fps \in {5994, 6000}, time_start \in {40, 60},
          flag \in {PyStr("true"), PyStr("false")} :
         args = Session(order, n, V, barcode_lost,
                        SessionJson(6, sps, recorded, fps, time_start, flag))

CallValidate ==
    /\ pc = "call"
    /\ ret' = validate(args)
    /\ pc' = "done"
    /\ UNCHANGED args

NextValidate == CallValidate

SpecValidate == InitValidate /\ [][NextValidate]_vars

IsPrefix(xs, ys) == Len(xs) <= Len(ys) /\ \A i \in 1..Len(xs) : xs[i] = ys[i]

\* C8: the checks run camera by camera in the order 1..7; validate returns
\* only after every check of every camera was evaluated and passed, and
\* otherwise raises one error, that of the first failing check, the last one
\* evaluated.
C8_FirstFailingCheckRaises ==
    pc = "done" =>
      /\ IsPrefix(ret.log, all_steps(args))
      /\ Returned(ret) => ret.log = all_steps(args)
      /\ ~Returned(ret) =>
            /\ ret.err = "AssertionError"
            /\ ret.log # <<>>
            /\ ret.failed = ret.log[Len(ret.log)]

\* ============================================================ SpecSelection
\* get_video_frame_times on a selection of the videos of a session.

\* the non-empty selections of the three video paths; all three is also what
\* the directory of the videos stands for
Selections == (SUBSET CameraNames) \ {{}}

InitSelection ==
    /\ pc = "call"
    /\ ret = None
    /\ \E cams \in Selections, burst \in BurstWirings, n \in 0..MaxEdges,
          V \in {1, MaxEdges + 2}, sps \in {<<>>, <<<<1>>>>}, apply_correction \in BOOLEAN :
         args = [FrameTimesArgs(
                     burst,
                     [p \in CameraNamesOnSync |-> IF p = "beh" THEN n ELSE 2],
                     [c \in CameraNames |-> IF c = "behavior" THEN sps ELSE <<>>],
                     [c \in CameraNames |-> IF c = "behavior" THEN V ELSE 3],
                     apply_correction)
                 EXCEPT !.cams = cams]

CallSelection ==
    /\ pc = "call"
    /\ ret' = get_video_frame_times_logged(args.sync, args.cams, args.jsons,
                                           args.num_frames, args.apply_correction)
    /\ pc' = "done"
    /\ UNCHANGED args

NextSelection == CallSelection

SpecSelection == InitSelection /\ [][NextSelection]_vars

\* C11: for every non-empty selection of the video paths the call returns,
\* and its result holds one array per path passed, keyed by that path.
C11_OneArrayPerPathPassed ==
    pc = "done" =>
        /\ Returned(ret)
        /\ DOMAIN ret.val = args.cams

\* C12: in a returned array NaN stands at index 0 (the metadata frame) and,
\* with correction on, nowhere else; only an uncorrected array may hold
\* further NaN entries.
C12_NaNOnlyAtMetadataFrame ==
    pc = "done" =>
        /\ Returned(ret)
        /\ \A camera \in DOMAIN ret.val :
              LET times == ret.val[camera]
              IN  /\ Len(times) >= 1 => times[1] = NaN
                  /\ args.apply_correction =>
                        \A i \in 2..Len(times) : times[i] # NaN

\* some role's fingerprint matches another role's physical line
IsMisWired(sync, jsons) ==
    \E camera \in CameraNames :
        ResolvedLine(sync, jsons, camera) # get_camera_name_on_sync(camera)

\* C13: the call logs the mis-wiring warning if and only if some role is
\* mapped to another role's line, and whether or not it is, the call does not
\* fail.
C13_WarningIffNotIdentity ==
    (pc = "done" /\ LinesPresent(args.sync)) =>
        /\ Returned(ret)
        /\ (ret.warnings > 0) <=> IsMisWired(args.sync, args.jsons)

\* ============================================================ SpecChecks
\* MVRDataset.validate on sessions made to get past its first checks: every
\* camera has exposing edges, FramesRecorded of 3000 (not less than the video's
\* frame count less one, and at least 2001 per lost frame), a TimeStart after
\* the start of sync and 60.00 frames per second.

ManyEdges == 22

\* The session in which line p has nE[p] exposing and nR[p] readout pulses
\* and the fingerprint burst[p], the video of camera c has V[c] frames of
\* which lost_in_video[c] were dropped before its last one, and the info.json
\* of c declares the lost count declared[c], the lost frames sps[c] and the
\* imprint flag flag[c].
CheckedSession(order, burst, nE, nR, V, lost_in_video, declared, sps, flag) ==
    [sync |-> [SyncData(WiredStarts, [p \in CameraNamesOnSync |-> WiredStarts[p] + 3],
                        burst, nE, nR)
               EXCEPT !.start_time = 50],
     video_paths |-> order,
     info_data |-> [c \in CameraNames |->
                      [SessionJson(WiredNominals[c], sps[c], 3000, 6000, 60, flag[c])
                       EXCEPT !.FramesLostCount = declared[c]]],
     video_data |-> [c \in CameraNames |-> RecordedVideo(V[c], lost_in_video[c])],
     lost_in_video |-> lost_in_video]

OnBehavior(x, others) == [c \in CameraNames |-> IF c = "behavior" THEN x ELSE others]

OnBeh(x, others) == [p \in CameraNamesOnSync |-> IF p = "beh" THEN x ELSE others]

\* declared counts and span strings in every combination (a json that
\* declares lost frames lists some), barcodes imprinted
InitLostCounts ==
    \E order \in CameraOrders, declared \in 0..2,
       sps \in {<<>>, <<<<1>>>>, <<<<1, 2>>>>}, lost_in_video \in 0..2 :
      /\ declared = 0 \/ sps # <<>>
      /\ args = CheckedSession(order, WiredBursts, OnBeh(4, 4), OnBeh(4, 4),
                               OnBehavior(3, 3), OnBehavior(lost_in_video, 0),
                               OnBehavior(declared, 0), OnBehavior(sps, <<>>),
                               OnBehavior(PyStr("true"), PyStr("true")))

\* barcodes imprinted on the videos of some cameras only
InitImprint ==
    \E order \in CameraOrders, flag \in [CameraNames -> {PyStr("true"), PyStr("false")}],
       sps \in {<<>>, <<<<1>>>>}, lost_in_video \in 0..1 :
      args = CheckedSession(order, WiredBursts, OnBeh(4, 4), OnBeh(4, 4),
                            OnBehavior(3, 3), OnBehavior(lost_in_video, 0),
                            OnBehavior(Len(FramesNamed(sps)), 0), OnBehavior(sps, <<>>),
                            flag)

\* edge counts either side of the tolerance of check 7, on every wiring
InitFrameCounts ==
    \E order \in CameraOrders, burst \in BurstWirings,
       nE \in {1, 2, ManyEdges}, nR \in {2, ManyEdges - 2, ManyEdges},
       sps \in {<<>>, <<<<1>>>>} :
      args = CheckedSession(order, burst, OnBeh(nE, 2), OnBeh(nR, 2),
                            OnBehavior(2, 2), OnBehavior(0, 0),
                            OnBehavior(Len(FramesNamed(sps)), 0), OnBehavior(sps, <<>>),
                            OnBehavior(PyStr("false"), PyStr("false")))

InitChecks ==
    /\ pc = "call"
    /\ ret = None
    /\ \/ InitLostCounts
       \/ InitImprint
       \/ InitFrameCounts

CallChecks ==
    /\ pc = "call"
    /\ ret' = validate(args)
    /\ pc' = "done"
    /\ UNCHANGED args

NextChecks == CallChecks

SpecChecks == InitChecks /\ [][NextChecks]_vars

Evaluated(camera, k) == \E i \in 1..Len(ret.log) : ret.log[i] = <<camera, k>>

BarcodeAvailable(camera) ==
    args.info_data[camera].FrameID_imprint_enabled = PyStr("true")

\* the frame counts of check 7 as the specification defines them, the lines
\* being those of the physical camera resolved for the role
ExpectedFromSync(camera) ==
    Len(args.sync.rising[Line(ResolvedLine(args.sync, args.info_data, camera),
                              "_cam_frame_readout")])
        - args.info_data[camera].FramesLostCount + 1

UncorrectedFromSync(camera) ==
    LET edges == args.sync.rising[Line(ResolvedLine(args.sync, args.info_data, camera),
                                       "_cam_exposing")]
        lost == get_lost_frames_from_camera_info(args.info_data[camera]).val
    IN  Cardinality(Survivors(edges, lost)) + 1

\* check 1 has something to pass on: an exposing edge of the camera is left
\* once the lost frames are removed
HasTimes(camera) == UncorrectedFromSync(camera) > 1

\* C14: for the camera validate visits first, when it has frame times and
\* its barcode count is available, check 4 is evaluated and raises if and
\* only if that count differs from the FramesLostCount its metadata declares.
C14_BarcodeCountEqualsDeclared ==
    LET camera == args.video_paths[1]
    IN  (pc = "done" /\ HasTimes(camera) /\ BarcodeAvailable(camera)) =>
            /\ Evaluated(camera, 4)
            /\ (ret.failed = <<camera, 4>>)
                   <=> (args.lost_in_video[camera] # args.info_data[camera].FramesLostCount)

\* C15: a camera whose barcodes are not imprinted does not make validate
\* fail: for the camera visited first, which has frame times, check 4 is
\* skipped and check 5 evaluated when its barcodes are absent, and check 4 is
\* still enforced when its own count is available though another camera's
\* is not.
C15_BarcodeUnavailableIsSkipped ==
    LET camera == args.video_paths[1]
    IN  (pc = "done" /\ HasTimes(camera)) =>
            /\ ~BarcodeAvailable(camera) =>
                  /\ ret.err \notin {"ValueError", "AttributeError"}
                  /\ ret.failed # <<camera, 4>>
                  /\ Evaluated(camera, 5)
            /\ (/\ BarcodeAvailable(camera)
                /\ \E other \in CameraNames : ~BarcodeAvailable(other)
                /\ args.lost_in_video[camera] # args.info_data[camera].FramesLostCount)
                  => ret.failed = <<camera, 4>>

\* C16: for the camera visited first, which passes checks 1 to 6, check 7
\* is evaluated and raises if and only if |expected - actual| >= 20 and the
\* uncorrected count differs from expected.
C16_FrameCountCheckAndWaiver ==
    LET camera == args.video_paths[1]
    IN  (pc = "done" /\ HasTimes(camera) /\ ~BarcodeAvailable(camera)) =>
            /\ Evaluated(camera, 7)
            /\ (ret.failed = <<camera, 7>>)
                   <=> (/\ Abs(ExpectedFromSync(camera)
                                 - args.video_data[camera].num_frames) >= 20
                        /\ UncorrectedFromSync(camera) # ExpectedFromSync(camera))

\* ============================================================ SpecCache
\* Requests for the line mapping of one session.  args is the session; ret is
\* the state of the process: cache, the entries of the functools.cache of
\* get_camera_sync_line_name_mapping; calls, its calls so far; the two
\* cached properties of the MVRDataset that were set; err, what the last
\* operation raised.

MaxOps == 3

\* the key of a call: its positional arguments, the timing source as it was
\* passed ("path" or "dataset") and the video paths in the order passed
cache_key(sync_form, videos) == <<sync_form, videos>>

\* A call of the cached resolver with this key, resolved being what the
\* function body returns or raises for it: a hit returns the entry, a miss
\* runs the body and stores what it returned; an exception stores nothing.
cached_call(st, key, resolved) ==
    IF \E e \in st.cache : e.key = key
    THEN [st EXCEPT !.calls = Append(@, [key |-> key, hit |-> TRUE, err |-> "",
                                         val |-> (CHOOSE e \in st.cache : e.key = key).val])]
    ELSE [st EXCEPT !.calls = Append(@, [key |-> key, hit |-> FALSE, err |-> resolved.err,
                                         val |-> resolved.val]),
                    !.cache = IF Returned(resolved)
                              THEN @ \cup {[key |-> key, val |-> resolved.val]}
                              ELSE @]

\* the resolver call of get_video_frame_times(sync, *videos)
request(st, session, sync_form, videos) ==
    cached_call(st, cache_key(sync_form, videos),
                get_camera_sync_line_name_mapping(
                    session.sync,
                    [c \in {videos[i] : i \in 1..Len(videos)} |-> session.info_data[c]]))

\* a call of get_video_frame_times from outside the dataset
direct_call(st, result) == [st EXCEPT !.err = result.err, !.ops = @ + 1]

\* cached_property: the value is kept only if the getter returned
frame_times_set(st, result) ==
    [st EXCEPT !.err = result.err, !.frame_times_cached = Returned(result)]

\* MVRDataset.frame_times: sync_data and all the video paths are passed
access_frame_times(st, session) ==
    IF st.frame_times_cached THEN [st EXCEPT !.err = ""]
    ELSE frame_times_set(request(st, session, "dataset", session.video_paths),
                         frame_times(session))

RECURSIVE augmented_from(_, _, _)

\* after the pass of camera i: the next pass, or the exception of this one
augmented_next(st, result, session, i) ==
    IF Returned(result) THEN augmented_from(st, session, i + 1)
    ELSE [st EXCEPT !.err = result.err]

\* the loop of augmented_camera_info from camera i on: sync_path and the
\* video path of the camera alone are passed
augmented_from(st, session, i) ==
    IF i > Len(session.video_paths)
    THEN [st EXCEPT !.err = "", !.augmented_cached = TRUE]
    ELSE augmented_next(request(st, session, "path", <<session.video_paths[i]>>),
                        augmented_info_of(session, session.video_paths[i]),
                        session, i)

\* MVRDataset.augmented_camera_info
access_augmented_camera_info(st, session) ==
    IF st.augmented_cached THEN [st EXCEPT !.err = ""]
    ELSE augmented_from(st, session, 1)

\* validate reads frame_times once augmented_camera_info was read
validate_times(st, session) ==
    IF st.err # "" THEN st ELSE access_frame_times(st, session)

\* validate's checks call no resolver: they decide what validate raises
validate_end(st, result) ==
    IF st.err # "" THEN st ELSE [st EXCEPT !.err = result.err]

\* MVRDataset.validate, as a sequence of requests
validate_requests(st, session) ==
    validate_end(validate_times(access_augmented_camera_info(st, session), session),
                 validate(session))

\* the ways the videos of the session are passed in a call from outside
VideoSelections ==
    { <<"behavior", "face", "eye">>, <<"eye", "face", "behavior">>,
      <<"behavior">>, <<"face", "eye">> }

InitCache ==
    /\ pc = "session"
    /\ ret = [err |-> "", val |-> <<>>, cache |-> {}, calls |-> <<>>,
              frame_times_cached |-> FALSE, augmented_cached |-> FALSE, ops |-> 0]
    /\ \E order \in CameraOrders, burst \in BurstWirings, n \in {0, 2} :
         args = CheckedSession(order, burst, OnBeh(n, 2), OnBeh(2, 2),
                               OnBehavior(2, 2), OnBehavior(0, 0),
                               OnBehavior(0, 0), OnBehavior(<<>>, <<>>),
                               OnBehavior(PyStr("false"), PyStr("false")))

FrameTimes ==
    /\ ret.ops < MaxOps
    /\ ret' = [access_frame_times(ret, args) EXCEPT !.ops = @ + 1]
    /\ UNCHANGED <<pc, args>>

AugmentedCameraInfo ==
    /\ ret.ops < MaxOps
    /\ ret' = [access_augmented_camera_info(ret, args) EXCEPT !.ops = @ + 1]
    /\ UNCHANGED <<pc, args>>

Validate ==
    /\ ret.ops < MaxOps
    /\ ret' = [validate_requests(ret, args) EXCEPT !.ops = @ + 1]
    /\ UNCHANGED <<pc, args>>

GetVideoFrameTimes ==
    /\ ret.ops < MaxOps
    /\ \E sync_form \in {"path", "dataset"}, videos \in VideoSelections,
          apply_correction \in BOOLEAN :
         ret' = direct_call(
                    request(ret, args, sync_form, videos),
                    get_video_frame_times(
                        args.sync, {videos[i] : i \in 1..Len(videos)}, args.info_data,
                        [c \in CameraNames |-> get_total_frames_in_video(args, c)],
                        apply_correction))
    /\ UNCHANGED <<pc, args>>

NextCache ==
    \/ FrameTimes
    \/ AugmentedCameraInfo
    \/ Validate
    \/ GetVideoFrameTimes

SpecCache == InitCache /\ [][NextCache]_vars

\* the calls that ran the resolver and got a mapping from it
Computed == {i \in 1..Len(ret.calls) : ~ret.calls[i].hit /\ ret.calls[i].err = ""}

\* C17: on a session whose lines all have edges, whatever the operations and
\* however the timing source and the videos are passed, the mapping is
\* computed at most once, every request gets a mapping and the same one, and a
\* resolution that raised left no cache entry.
C17_MappingResolvedOnce ==
    (pc = "session" /\ LinesPresent(args.sync)) =>
        /\ Cardinality(Computed) <= 1
        /\ \A i \in 1..Len(ret.calls) : ret.calls[i].err = ""
        /\ \A i, j \in 1..Len(ret.calls) : ret.calls[i].val = ret.calls[j].val
        /\ \A e \in ret.cache : \E i \in Computed : ret.calls[i].key = e.key

====
